---- MODULE Spec2Model ----
(***************************************************************************)
(* A model of dice_blast (src/src/main.rs): the polling wait loops, the    *)
(* posting extractor, the deep-link composition and the main flow.         *)
(*                                                                         *)
(* Time is in milliseconds.  Every browser call is one step whose outcome  *)
(* (Ok / Err, and the value returned) is chosen by the environment.        *)
(* Strings are sequences of one-character strings.                         *)
(***************************************************************************)
EXTENDS Integers, Sequences, FiniteSets, TLC

(***************************************************************************)
(* Program constants                                                       *)
(***************************************************************************)
\* sleep(Duration::from_millis(500)) at the foot of each wait loop
PollInterval == 500
\* Duration::from_secs(30) in click_easy_apply_button
EasyApplyTimeout == 30000
\* sleep(Duration::from_millis(500)) between scroll_into_view and click
SettleDelay == 500

(***************************************************************************)
(* Bounds of the model                                                     *)
(***************************************************************************)
\* a browser round trip takes 0..MaxLatencySteps half-seconds
MaxLatencySteps == 1
\* a sleep overshoots its duration by 0..MaxOvershootSteps half-seconds
MaxOvershootSteps == 1
\* timeouts handed to the wait loops: 1..MaxTimeoutSteps quarter-seconds
MaxTimeoutSteps == 5
\* find_all returns at most this many div / button handles in the apply page
MaxDivs == 2
MaxButtons == 2

TimeStep == PollInterval \div 2
Latencies == {k * PollInterval : k \in 0..MaxLatencySteps}
Overshoots == {k * PollInterval : k \in 0..MaxOvershootSteps}
Timeouts == {k * TimeStep : k \in 1..MaxTimeoutSteps}

(***************************************************************************)
(* Strings                                                                 *)
(***************************************************************************)
\* what a browser call returns besides a string: Ok(None), Err(..)
NoValue == <<"<none>">>
ErrValue == <<"<err>">>

\* str.contains(sub)
Contains(s, sub) ==
    \E i \in 1..(Len(s) + 1) :
        /\ i + Len(sub) - 1 <= Len(s)
        /\ SubSeq(s, i, i + Len(sub) - 1) = sub

ApplyButtonId == <<"a","p","p","l","y","B","u","t","t","o","n">>
BtnPrimaryClass == <<"b","t","n"," ","b","t","n","-","p","r","i","m","a","r","y">>
EasyApplyText == <<"E","a","s","y"," ","a","p","p","l","y">>

\* values the page may give for a div's id, a button's class and its text
DivIds == {ApplyButtonId, <<"a","p","p","l","y">>}
ButtonClasses == {BtnPrimaryClass,
                  BtnPrimaryClass \o <<" ","l","g">>,
                  <<"b","t","n">>}
ButtonTexts == {EasyApplyText, <<"E","a","s","y"," ","A","p","p","l","y">>,
                <<"S","a","v","e">>}

VARIABLES
    wkind,      \* the wait loop running: "element", "clickable", "easy_apply"
    wpc,        \* its position
    timeout,    \* its timeout
    elapsed,    \* Instant::now() - start
    wresult,    \* "none", "Ok", "Timeout", "Error"
    divsLeft,   \* click_easy_apply_button: divs of div_elements still to visit
    btnsLeft,   \* click_easy_apply_button: buttons still to visit
    btn,        \* click_easy_apply_button: what was read of the current button
    hist        \* history of the call (not program state)

wvars == <<wkind, wpc, timeout, elapsed, wresult, divsLeft, btnsLeft, btn, hist>>

NoBtn == [div |-> NoValue, class |-> NoValue, text |-> NoValue,
          scrolled |-> FALSE, settled |-> FALSE]

Hist0 == [probes |-> 0,          \* polls started (driver.find at the loop head)
          sleeps |-> 0,          \* sleeps at the loop foot
          firstOkAt |-> 0,       \* wait_for_element: poll whose find first was Ok
          lastPollAt |-> 0,      \* elapsed when the last poll started
          sleptSincePoll |-> FALSE,
          lateProbe |-> FALSE,   \* a poll started with elapsed > timeout
          errorFrom |-> "none",  \* the browser call whose Err was returned
          clicks |-> <<>>]       \* buttons clicked

(***************************************************************************)
(* The shared skeleton of the three wait loops                             *)
(***************************************************************************)
\* if tokio::time::Instant::now() - start > timeout
DeadlinePassedEq(e, t) == e >= t
DeadlineNever(e, t) == FALSE
DeadlinePassedLate(e, t) == e > t + PollInterval
DeadlinePassed(e, t) == e > t

\* driver.find(..).await.is_ok() / if let Ok(..) = driver.find(..).await
ProbeSatisfiedNever(r) == FALSE
ProbeSatisfied(r) == r = "Ok"

\* sleep(Duration::from_millis(500)).await at the loop foot
SleepNone(over) == 0
SleepFor(over) == PollInterval + over

\* the deadline check at the loop head
Check(kind) ==
    /\ wkind = kind
    /\ wpc = "check"
    /\ IF DeadlinePassed(elapsed, timeout)
         THEN /\ wpc' = "done"
              /\ wresult' = "Timeout"
         ELSE /\ wpc' = "find"
              /\ UNCHANGED wresult
    /\ UNCHANGED <<wkind, timeout, elapsed, divsLeft, btnsLeft, btn, hist>>

\* the history of a poll that starts now and whose driver.find returns r
Polled(r) ==
    [hist EXCEPT !.probes = @ + 1,
                 !.firstOkAt = IF @ = 0 /\ r = "Ok" /\ wkind = "element"
                                 THEN hist.probes + 1 ELSE @,
                 !.lastPollAt = elapsed,
                 !.sleptSincePoll = FALSE,
                 !.lateProbe = @ \/ elapsed > timeout]

\* the sleep at the loop foot, then back to the loop head
Sleep(kind) ==
    /\ wkind = kind
    /\ wpc = "sleep"
    /\ \E over \in Overshoots :
        /\ elapsed' = elapsed + SleepFor(over)
        /\ hist' = [hist EXCEPT !.sleeps = @ + 1,
                                !.sleptSincePoll = SleepFor(over) > 0]
    /\ wpc' = "check"
    /\ UNCHANGED <<wkind, timeout, wresult, divsLeft, btnsLeft, btn>>

\* return Ok(()) / return Err(e) out of a wait loop
Return(r, from) ==
    /\ wpc' = "done"
    /\ wresult' = r
    /\ hist' = [hist EXCEPT !.errorFrom = IF r = "Error" THEN from ELSE @]

(***************************************************************************)
(* wait_for_element                                                        *)
(***************************************************************************)
WFE_Check == Check("element")

WFE_Find ==
    /\ wkind = "element"
    /\ wpc = "find"
    /\ \E r \in {"Ok", "Err"}, lat \in Latencies :
        /\ elapsed' = elapsed + lat
        /\ IF ProbeSatisfied(r)
             THEN /\ wpc' = "done"
                  /\ wresult' = "Ok"
             ELSE /\ wpc' = "sleep"
                  /\ UNCHANGED wresult
        /\ hist' = Polled(r)
    /\ UNCHANGED <<wkind, timeout, divsLeft, btnsLeft, btn>>

WFE_Sleep == Sleep("element")

wait_for_element == WFE_Check \/ WFE_Find \/ WFE_Sleep

(***************************************************************************)
(* wait_for_element_clickable                                              *)
(***************************************************************************)
WFEC_Check == Check("clickable")

WFEC_Find ==
    /\ wkind = "clickable"
    /\ wpc = "find"
    /\ \E r \in {"Ok", "Err"}, lat \in Latencies :
        /\ elapsed' = elapsed + lat
        /\ wpc' = IF ProbeSatisfied(r) THEN "is_displayed" ELSE "sleep"
        /\ hist' = Polled(r)
    /\ UNCHANGED <<wkind, timeout, wresult, divsLeft, btnsLeft, btn>>

\* element.is_displayed().await?  (&& short-circuits on false)
WFEC_IsDisplayed ==
    /\ wkind = "clickable"
    /\ wpc = "is_displayed"
    /\ \E r \in {"true", "false", "Err"} :
        CASE r = "Err" -> Return("Error", "is_displayed")
          [] r = "true" -> /\ wpc' = "is_enabled"
                           /\ UNCHANGED <<wresult, hist>>
          [] OTHER -> /\ wpc' = "sleep"
                      /\ UNCHANGED <<wresult, hist>>
    /\ UNCHANGED <<wkind, timeout, elapsed, divsLeft, btnsLeft, btn>>

\* element.is_enabled().await?
WFEC_IsEnabled ==
    /\ wkind = "clickable"
    /\ wpc = "is_enabled"
    /\ \E r \in {"true", "false", "Err"} :
        CASE r = "Err" -> Return("Error", "is_enabled")
          [] r = "true" -> Return("Ok", "none")
          [] OTHER -> /\ wpc' = "sleep"
                      /\ UNCHANGED <<wresult, hist>>
    /\ UNCHANGED <<wkind, timeout, elapsed, divsLeft, btnsLeft, btn>>

WFEC_Sleep == Sleep("clickable")

wait_for_element_clickable ==
    WFEC_Check \/ WFEC_Find \/ WFEC_IsDisplayed \/ WFEC_IsEnabled \/ WFEC_Sleep

(***************************************************************************)
(* click_easy_apply_button                                                 *)
(***************************************************************************)
\* if id_value == "applyButton"
IsApplyButtonDiv(id) == id = ApplyButtonId

\* if class_value.contains("btn btn-primary")
IsPrimaryClass(class) == Contains(class, BtnPrimaryClass)

\* if text == "Easy apply"
IsEasyApplyText(text) == text = EasyApplyText

\* the end of the loop body: its locals (div_elements, button_elements, the
\* handles) are dropped, then the sleep at the loop foot
ToSleep ==
    /\ wpc' = "sleep"
    /\ divsLeft' = 0
    /\ btnsLeft' = 0
    /\ btn' = NoBtn

\* return out of the loop body, its locals dropped
ReturnEA(r, from) ==
    /\ Return(r, from)
    /\ divsLeft' = 0
    /\ btnsLeft' = 0

EA_Check == Check("easy_apply")

\* if let Ok(main_element) = driver.find(By::Css("main.flex.flex-col")).await
EA_FindMain ==
    /\ wkind = "easy_apply"
    /\ wpc = "find"
    /\ \E r \in {"Ok", "Err"}, lat \in Latencies :
        /\ elapsed' = elapsed + lat
        /\ wpc' = IF ProbeSatisfied(r) THEN "find_divs" ELSE "sleep"
        /\ hist' = Polled(r)
    /\ UNCHANGED <<wkind, timeout, wresult, divsLeft, btnsLeft, btn>>

\* let div_elements = main_element.find_all(By::Css("div")).await?;
EA_FindDivs ==
    /\ wkind = "easy_apply"
    /\ wpc = "find_divs"
    /\ \/ /\ ReturnEA("Error", "find_all_div")
          /\ UNCHANGED btn
       \/ \E n \in 0..MaxDivs :
            /\ IF n = 0
                 THEN ToSleep
                 ELSE /\ wpc' = "div_attr"
                      /\ divsLeft' = n
                      /\ UNCHANGED <<btnsLeft, btn>>
            /\ UNCHANGED <<wresult, hist>>
    /\ UNCHANGED <<wkind, timeout, elapsed>>

\* for div in div_elements { if let Ok(id) = div.attr("id").await {
\*     if let Some(id_value) = id { if id_value == "applyButton" { ..
\* (the divs after the applyButton div are never visited: the for loop is
\* left by the break that follows the buttons)
EA_DivAttr ==
    /\ wkind = "easy_apply"
    /\ wpc = "div_attr"
    /\ divsLeft > 0
    /\ \E r \in {ErrValue, NoValue} \cup DivIds :
        IF r \in DivIds /\ IsApplyButtonDiv(r)
          THEN /\ wpc' = "find_buttons"
               /\ btn' = [NoBtn EXCEPT !.div = r]
               /\ divsLeft' = 0
               /\ UNCHANGED btnsLeft
          ELSE IF divsLeft = 1
                 THEN ToSleep
                 ELSE /\ wpc' = "div_attr"
                      /\ divsLeft' = divsLeft - 1
                      /\ UNCHANGED <<btnsLeft, btn>>
    /\ UNCHANGED <<wkind, timeout, elapsed, wresult, hist>>

\* let button_elements = div.find_all(By::Css("button")).await?;
\* (an empty list falls through to the break after the for loop)
EA_FindButtons ==
    /\ wkind = "easy_apply"
    /\ wpc = "find_buttons"
    /\ \/ /\ ReturnEA("Error", "find_all_button")
          /\ UNCHANGED btn
       \/ \E m \in 0..MaxButtons :
            /\ IF m = 0
                 THEN ToSleep
                 ELSE /\ wpc' = "btn_class"
                      /\ btnsLeft' = m
                      /\ UNCHANGED <<divsLeft, btn>>
            /\ UNCHANGED <<wresult, hist>>
    /\ UNCHANGED <<wkind, timeout, elapsed>>

\* the next button of button_elements; once they are exhausted, the break
\* out of the for loop over the divs, to the sleep at the loop foot
NextButton ==
    IF btnsLeft = 1
      THEN ToSleep
      ELSE /\ wpc' = "btn_class"
           /\ btnsLeft' = btnsLeft - 1
           /\ btn' = [NoBtn EXCEPT !.div = btn.div]
           /\ UNCHANGED divsLeft

\* if let Ok(class) = button.attr("class").await { if let Some(class_value) = class {
\*     if class_value.contains("btn btn-primary") { ..
EA_BtnClass ==
    /\ wkind = "easy_apply"
    /\ wpc = "btn_class"
    /\ btnsLeft > 0
    /\ \E r \in {ErrValue, NoValue} \cup ButtonClasses :
        IF r \in ButtonClasses /\ IsPrimaryClass(r)
          THEN /\ wpc' = "btn_text"
               /\ btn' = [btn EXCEPT !.class = r]
               /\ UNCHANGED <<divsLeft, btnsLeft>>
          ELSE NextButton
    /\ UNCHANGED <<wkind, timeout, elapsed, wresult, hist>>

\* if let Ok(text) = button.text().await { if text == "Easy apply" { ..
EA_BtnText ==
    /\ wkind = "easy_apply"
    /\ wpc = "btn_text"
    /\ \E r \in {ErrValue} \cup ButtonTexts :
        IF r \in ButtonTexts /\ IsEasyApplyText(r)
          THEN /\ wpc' = "scroll"
               /\ btn' = [btn EXCEPT !.text = r]
               /\ UNCHANGED <<divsLeft, btnsLeft>>
          ELSE NextButton
    /\ UNCHANGED <<wkind, timeout, elapsed, wresult, hist>>

\* button.scroll_into_view().await?;
EA_Scroll ==
    /\ wkind = "easy_apply"
    /\ wpc = "scroll"
    /\ \/ /\ ReturnEA("Error", "scroll_into_view")
          /\ UNCHANGED btn
       \/ /\ wpc' = "settle"
          /\ btn' = [btn EXCEPT !.scrolled = TRUE]
          /\ UNCHANGED <<wresult, hist, divsLeft, btnsLeft>>
    /\ UNCHANGED <<wkind, timeout, elapsed>>

\* sleep(Duration::from_millis(500)).await;  (before the click)
EA_Settle ==
    /\ wkind = "easy_apply"
    /\ wpc = "settle"
    /\ \E over \in Overshoots : elapsed' = elapsed + SettleDelay + over
    /\ wpc' = "click"
    /\ btn' = [btn EXCEPT !.settled = TRUE]
    /\ UNCHANGED <<wkind, timeout, wresult, divsLeft, btnsLeft, hist>>

\* button.click().await?; return Ok(());
EA_Click ==
    /\ wkind = "easy_apply"
    /\ wpc = "click"
    /\ \/ ReturnEA("Error", "click")
       \/ /\ wpc' = "done"
          /\ wresult' = "Ok"
          /\ hist' = [hist EXCEPT !.clicks = Append(@, btn)]
          /\ divsLeft' = 0
          /\ btnsLeft' = 0
    /\ UNCHANGED <<wkind, timeout, elapsed, btn>>

EA_Sleep == Sleep("easy_apply")

click_easy_apply_button ==
    \/ EA_Check \/ EA_FindMain \/ EA_FindDivs \/ EA_DivAttr \/ EA_FindButtons
    \/ EA_BtnClass \/ EA_BtnText \/ EA_Scroll \/ EA_Settle \/ EA_Click \/ EA_Sleep

(***************************************************************************)
(* Calling a wait loop and taking its result                               *)
(***************************************************************************)
\* no wait loop is running
WaitIdle ==
    /\ wkind = "none"
    /\ wpc = "idle"
    /\ timeout = 0
    /\ elapsed = 0
    /\ wresult = "none"
    /\ divsLeft = 0
    /\ btnsLeft = 0
    /\ btn = NoBtn
    /\ hist = Hist0

\* let start = tokio::time::Instant::now(); loop { ..
WaitStart(kind, t) ==
    /\ wkind = kind
    /\ wpc = "check"
    /\ timeout = t
    /\ elapsed = 0
    /\ wresult = "none"
    /\ divsLeft = 0
    /\ btnsLeft = 0
    /\ btn = NoBtn
    /\ hist = Hist0

\* a caller enters a wait loop
WaitCall(kind, t) ==
    /\ wkind' = kind
    /\ wpc' = "check"
    /\ timeout' = t
    /\ elapsed' = 0
    /\ wresult' = "none"
    /\ divsLeft' = 0
    /\ btnsLeft' = 0
    /\ btn' = NoBtn
    /\ hist' = Hist0

\* the caller has taken the result: the call's frame is gone
WaitReset ==
    /\ wkind' = "none"
    /\ wpc' = "idle"
    /\ timeout' = 0
    /\ elapsed' = 0
    /\ wresult' = "none"
    /\ divsLeft' = 0
    /\ btnsLeft' = 0
    /\ btn' = NoBtn
    /\ hist' = Hist0

(***************************************************************************)
(* get_job_detail_ids                                                      *)
(***************************************************************************)
\* Duration::from_secs(30) of the page-level wait
PageReadyTimeout == 30000

\* find_all returns at most this many div handles, and at most this many
\* anchors under one div
MaxContainers == 2
MaxAnchors == 2

JobDetailPrefix == <<"h","t","t","p","s",":","/","/","d","i","c","e",".","c","o","m","/","j","o","b","-","d","e","t","a","i","l","/">>
Uuid1 == <<"f","0","7","6","7","d","1","5","-","6","8","a","2","-","4","c","2","3","-","9","5","c","6","-","5","6","8","5","d","e","d","f","2","d","2","d">>
Uuid2 == <<"0","a","1","b","2","c","3","d","-","4","e","5","f","-","4","a","6","b","-","8","c","7","d","-","9","e","8","f","7","a","6","b","5","c","4","d">>
\* ids the pattern rejects: not a UUID, upper-case hex, a UUID with a tail
NotAUuid == <<"n","o","t","-","a","-","u","u","i","d">>
UpperUuid == <<"F","0","7","6","7","D","1","5","-","6","8","A","2","-","4","C","2","3","-","9","5","C","6","-","5","6","8","5","D","E","D","F","2","D","2","D">>
LongUuid == Uuid1 \o <<"0">>
AnchorIds == {Uuid1, Uuid2, NotAUuid, UpperUuid, LongUuid}

TitleEngineer == <<"E","n","g","i","n","e","e","r">>
TitleQuoted == <<"D","e","v"," ","\"","O","p","s","\""," ","\\"," ","Q","A">>
Titles == {TitleEngineer, TitleQuoted}

HexLower == {"0","1","2","3","4","5","6","7","8","9","a","b","c","d","e","f"}

\* Regex ^[a-f0-9]{8}-[a-f0-9]{4}-[a-f0-9]{4}-[a-f0-9]{4}-[a-f0-9]{12}$ .is_match
HashPatternMatch(s) ==
    /\ Len(s) = 36
    /\ \A i \in 1..36 :
        IF i \in {9, 14, 19, 24} THEN s[i] = "-" ELSE s[i] \in HexLower

ValidIds == {id \in AnchorIds : HashPatternMatch(id)}

VARIABLES
    epc,          \* position in get_job_detail_ids
    eresult,      \* "none", "Ok", "Timeout", "Error"
    divs_left,    \* div_elements still to visit (the current one included)
    anchors_left, \* a_elements of the current div still to visit
    cur,          \* the anchor whose id matched: its id_value and its text
    jobs,         \* Vec<Job>
    seen_ids,     \* HashSet<String>
    ehist         \* history of the call (not program state)

evars == <<epc, eresult, divs_left, anchors_left, cur, jobs, seen_ids, ehist>>

NoAnchor == [id |-> NoValue, title |-> NoValue]

EHist0 == [matching |-> {},      \* ids of the anchors enumerated that match
           firstTitle |-> [id \in ValidIds |-> NoValue],
                                  \* per id, the text of the first such anchor
           dupSkipped |-> FALSE, \* an anchor was skipped as already seen
           swallowed |-> FALSE,  \* an Err of attr or text was skipped over
           enumerated |-> FALSE, \* find_all was called
           ready |-> "none"]     \* what the page-level wait returned

ExtractIdle ==
    /\ epc = "idle"
    /\ eresult = "none"
    /\ divs_left = 0
    /\ anchors_left = 0
    /\ cur = NoAnchor
    /\ jobs = <<>>
    /\ seen_ids = {}
    /\ ehist = EHist0

\* get_job_detail_ids(&driver, 1) is entered
ExtractStart ==
    /\ epc = "start"
    /\ eresult = "none"
    /\ divs_left = 0
    /\ anchors_left = 0
    /\ cur = NoAnchor
    /\ jobs = <<>>
    /\ seen_ids = {}
    /\ ehist = EHist0

\* url: format!("https://dice.com/job-detail/{}", id_value)
JobUrl(id_value) == JobDetailPrefix \o id_value

\* Job { page_number, job_title: title, url: .. }
Job(page_number, title, id_value) ==
    [page_number |-> page_number, job_title |-> title, url |-> JobUrl(id_value)]

\* the identifier a posting was extracted with
JobIdentifier(job) == SubSeq(job.url, Len(JobDetailPrefix) + 1, Len(job.url))

\* !seen_ids.contains(&id_value)
NotSeenAlways(id_value) == TRUE
NotSeen(id_value) == id_value \notin seen_ids

\* return out of get_job_detail_ids: Err(e) by `?`, or Ok(jobs)
E_Return(r) ==
    /\ epc' = "done"
    /\ eresult' = r
    /\ divs_left' = 0
    /\ anchors_left' = 0
    /\ cur' = NoAnchor

\* wait_for_element(driver, By::Css("div"), Duration::from_secs(30)).await?
E_CallWait ==
    /\ epc = "start"
    /\ wpc = "idle"
    /\ epc' = "wait"
    /\ WaitCall("element", PageReadyTimeout)
    /\ UNCHANGED <<eresult, divs_left, anchors_left, cur, jobs, seen_ids, ehist>>

\* (the result of the wait dropped: `let _ = wait_for_element(..).await;`)
E_WaitReturnIgnored ==
    /\ epc = "wait"
    /\ wpc = "done"
    /\ epc' = "settle"
    /\ ehist' = [ehist EXCEPT !.ready = wresult]
    /\ WaitReset
    /\ UNCHANGED <<eresult, divs_left, anchors_left, cur, jobs, seen_ids>>

\* the `?` on the result of the wait: Err(Timeout) is returned as it is
E_WaitReturn ==
    /\ epc = "wait"
    /\ wpc = "done"
    /\ IF wresult = "Ok"
         THEN /\ epc' = "settle"
              /\ UNCHANGED <<eresult, divs_left, anchors_left, cur>>
         ELSE E_Return(wresult)
    /\ ehist' = [ehist EXCEPT !.ready = wresult]
    /\ WaitReset
    /\ UNCHANGED <<jobs, seen_ids>>

\* sleep(Duration::from_secs(5)).await;
E_Settle ==
    /\ epc = "settle"
    /\ epc' = "find_divs"
    /\ UNCHANGED <<eresult, divs_left, anchors_left, cur, jobs, seen_ids, ehist>>
    /\ UNCHANGED wvars

\* let div_elements = driver.find_all(By::Css("div")).await?;
E_FindDivs ==
    /\ epc = "find_divs"
    /\ ehist' = [ehist EXCEPT !.enumerated = TRUE]
    /\ \/ E_Return("Error")
       \/ \E n \in 0..MaxContainers :
            IF n = 0
              THEN E_Return("Ok")
              ELSE /\ epc' = "find_anchors"
                   /\ divs_left' = n
                   /\ UNCHANGED <<eresult, anchors_left, cur>>
    /\ UNCHANGED <<jobs, seen_ids>>
    /\ UNCHANGED wvars

\* the end of the body of `for div in div_elements`
NextDiv ==
    IF divs_left = 1
      THEN E_Return("Ok")
      ELSE /\ epc' = "find_anchors"
           /\ divs_left' = divs_left - 1
           /\ anchors_left' = 0
           /\ cur' = NoAnchor
           /\ UNCHANGED eresult

\* the end of the body of `for a in a_elements`
NextAnchor ==
    IF anchors_left = 1
      THEN NextDiv
      ELSE /\ epc' = "attr"
           /\ anchors_left' = anchors_left - 1
           /\ cur' = NoAnchor
           /\ UNCHANGED <<eresult, divs_left>>

\* let a_elements = div.find_all(By::Css("a")).await?;
E_FindAnchors ==
    /\ epc = "find_anchors"
    /\ divs_left > 0
    /\ \/ E_Return("Error")
       \/ \E m \in 0..MaxAnchors :
            IF m = 0
              THEN NextDiv
              ELSE /\ epc' = "attr"
                   /\ anchors_left' = m
                   /\ UNCHANGED <<eresult, divs_left, cur>>
    /\ UNCHANGED <<jobs, seen_ids, ehist>>
    /\ UNCHANGED wvars

\* the history once an anchor with this id and text is enumerated
Enumerated(h, id, title) ==
    IF id \in ValidIds
      THEN [h EXCEPT !.matching = @ \cup {id},
                     !.firstTitle[id] = IF @ = NoValue THEN title ELSE @]
      ELSE h

\* if let Ok(id) = a.attr("id").await { if let Some(id_value) = id {
\*     if hash_pattern.is_match(&id_value) && !seen_ids.contains(&id_value) { ..
\* The next anchor of a_elements has the id attribute `id` (NoValue: none) and
\* the text `title`; the call returns Ok or Err.
E_Attr ==
    /\ epc = "attr"
    /\ anchors_left > 0
    /\ \E id \in AnchorIds \cup {NoValue}, title \in Titles, r \in {"Ok", "Err"} :
        /\ IF r = "Ok" /\ id # NoValue /\ HashPatternMatch(id) /\ NotSeen(id)
             THEN /\ epc' = "text"
                  /\ cur' = [id |-> id, title |-> title]
                  /\ UNCHANGED <<eresult, divs_left, anchors_left>>
             ELSE NextAnchor
        /\ ehist' = [Enumerated(ehist, id, title) EXCEPT
                        !.dupSkipped = @ \/ (r = "Ok" /\ id \in seen_ids),
                        !.swallowed = @ \/ r = "Err"]
    /\ UNCHANGED <<jobs, seen_ids>>
    /\ UNCHANGED wvars

\* if let Ok(title) = a.text().await { jobs.push(job); seen_ids.insert(id_value); }
E_Text ==
    /\ epc = "text"
    /\ \E r \in {"Ok", "Err"} :
        /\ IF r = "Ok"
             THEN /\ jobs' = Append(jobs, Job(1, cur.title, cur.id))
                  /\ seen_ids' = seen_ids \cup {cur.id}
             ELSE UNCHANGED <<jobs, seen_ids>>
        /\ ehist' = [ehist EXCEPT !.swallowed = @ \/ r = "Err"]
    /\ NextAnchor
    /\ UNCHANGED wvars

get_job_detail_ids ==
    \/ E_CallWait \/ E_WaitReturn \/ E_Settle \/ E_FindDivs \/ E_FindAnchors
    \/ E_Attr \/ E_Text

(***************************************************************************)
(* generate_encoded_url: serde_json::to_string, then base64 (URL_SAFE)     *)
(***************************************************************************)
\* the characters of codes 32..126, in order ("grave" stands for code 96)
Ascii ==
    <<" ","!","\"","#","$","%","&","'","(",")","*","+",",","-",".","/","0",
      "1","2","3","4","5","6","7","8","9",":",";","<","=",">","?","@","A",
      "B","C","D","E","F","G","H","I","J","K","L","M","N","O","P","Q","R",
      "S","T","U","V","W","X","Y","Z","[","\\","]","^","_","grave","a","b","c",
      "d","e","f","g","h","i","j","k","l","m","n","o","p","q","r","s","t",
      "u","v","w","x","y","z","{","|","}","~">>

\* the byte of a character
Ord(c) == 31 + CHOOSE i \in DOMAIN Ascii : Ascii[i] = c

\* json_data.as_bytes()
Bytes(s) == [i \in DOMAIN s |-> Ord(s[i])]

\* base64::URL_SAFE: the alphabet A-Z a-z 0-9 - _ with '=' padding
B64Alphabet ==
    <<"A","B","C","D","E","F","G","H","I","J","K","L","M","N","O","P","Q",
      "R","S","T","U","V","W","X","Y","Z","a","b","c","d","e","f","g","h",
      "i","j","k","l","m","n","o","p","q","r","s","t","u","v","w","x","y",
      "z","0","1","2","3","4","5","6","7","8","9","-","_">>

B64Char(v) == B64Alphabet[v + 1]

\* encode_config(bytes, URL_SAFE): each group of three bytes gives four
\* characters, the last group padded with '='
Base64Encode(b) ==
    LET n == Len(b)
    IN  [j \in 1..(4 * ((n + 2) \div 3)) |->
            LET i == 3 * ((j - 1) \div 4)
                p == (j - 1) % 4
                b1 == b[i + 1]
                b2 == IF i + 2 <= n THEN b[i + 2] ELSE 0
                b3 == IF i + 3 <= n THEN b[i + 3] ELSE 0
            IN  CASE p = 0 -> B64Char(b1 \div 4)
                  [] p = 1 -> B64Char((b1 % 4) * 16 + b2 \div 16)
                  [] p = 2 -> IF i + 2 <= n
                                THEN B64Char((b2 % 16) * 4 + b3 \div 64)
                                ELSE "="
                  [] OTHER -> IF i + 3 <= n THEN B64Char(b3 % 64) ELSE "="]

\* serde_json's string escaping, for the characters of Ascii: " and \
RECURSIVE JsonEscape(_)
JsonEscape(s) ==
    CASE Len(s) = 0 -> <<>>
      [] Len(s) = 1 -> IF s[1] \in {"\"", "\\"} THEN <<"\\", s[1]>> ELSE s
      [] OTHER -> JsonEscape(SubSeq(s, 1, Len(s) \div 2))
                  \o JsonEscape(SubSeq(s, Len(s) \div 2 + 1, Len(s)))

JsonString(s) == <<"\"">> \o JsonEscape(s) \o <<"\"">>

\* serde_json::to_string of an object: members is a sequence of <<key, value>>
RECURSIVE JsonMembers(_)
JsonMembers(members) ==
    IF Len(members) = 0 THEN <<>>
    ELSE JsonString(members[1][1]) \o <<":">> \o JsonString(members[1][2])
         \o (IF Len(members) = 1 THEN <<>> ELSE <<",">>)
         \o JsonMembers(Tail(members))

JsonObject(members) == <<"{">> \o JsonMembers(members) \o <<"}">>

ApplyPrefix == <<"h","t","t","p","s",":","/","/","w","w","w",".","d","i","c","e",".","c","o","m","/","a","p","p","l","y","?">>
WwwJobDetailPrefix == <<"h","t","t","p","s",":","/","/","w","w","w",".","d","i","c","e",".","c","o","m","/","j","o","b","-","d","e","t","a","i","l","/">>
SearchLinkPrefix == <<"?","s","e","a","r","c","h","l","i","n","k","=","s","e","a","r","c","h","%","2","F","%","3","F">>
KeyDjvVersion == <<"d","j","v","V","e","r","s","i","o","n">>
KeyJobId == <<"j","o","b","I","d">>
KeyJobTitle == <<"j","o","b","T","i","t","l","e">>
KeyJobUrl == <<"j","o","b","U","r","l">>
KeySearchLink == <<"s","e","a","r","c","h","L","i","n","k">>
KeySearchParams == <<"s","e","a","r","c","h","P","a","r","a","m","s">>

\* json!({ "djvVersion": "new", "jobId": job_id, "jobUrl": .., "jobTitle": ..,
\*         "searchLink": .., "searchParams": .. })  (a map ordered by key)
ApplyData(job_id, job_title, search_params) ==
    << <<KeyDjvVersion, <<"n","e","w">> >>,
       <<KeyJobId, job_id>>,
       <<KeyJobTitle, job_title>>,
       <<KeyJobUrl, WwwJobDetailPrefix \o job_id \o <<"?">> \o search_params>>,
       <<KeySearchLink, SearchLinkPrefix \o search_params>>,
       <<KeySearchParams, <<"?">> \o search_params>> >>

\* format!("https://www.dice.com/apply?{}", encode_config(json_data, URL_SAFE))
generate_encoded_url(job_id, job_title, search_params) ==
    ApplyPrefix \o
    Base64Encode(Bytes(JsonObject(ApplyData(job_id, job_title, search_params))))

(***************************************************************************)
(* main, with login, cookie_exists, load_cookies, save_cookies and         *)
(* open_job_urls                                                           *)
(***************************************************************************)
\* cookies.json holds at most this many cookies
MaxCookies == 2

\* open_job_urls(&driver, jobs, "")
MainSearchParams == <<>>

VARIABLES
    mpc,           \* position in main (and in the functions it calls inline)
    mresult,       \* what main returned: "none", "Ok", "Error"
    login_result,  \* let login_result = login(&driver).await: "none", "Ok", "Err"
    cookie_file,   \* cookies.json: "absent" or "present"
    file_cookies,  \* the number of cookies it holds
    cookies_left,  \* load_cookies: cookies still to add
    job_index,     \* open_job_urls: the posting of `for job in jobs` being processed
    current_url,   \* the URL of the last navigation that succeeded
    log            \* the calls made so far, in order (not program state)

mvars == <<mpc, mresult, login_result, cookie_file, file_cookies, cookies_left,
           job_index, current_url, log>>

\* a call of `op` (for posting k of open_job_urls, else 0) that returned Ok or Err
Call(op, k, ok) == [op |-> op, k |-> k, ok |-> ok]
Logged(op, k, ok) == log' = Append(log, Call(op, k, ok))

\* main returns: Ok(()), or the error of the call that failed
MainReturn(r) ==
    /\ mpc' = "done"
    /\ mresult' = r

\* let driver = WebDriver::new("http://localhost:9415", caps).await?;
M_NewDriver ==
    /\ mpc = "new_driver"
    /\ \/ mpc' = "build_url" /\ UNCHANGED mresult
       \/ MainReturn("Error")
    /\ UNCHANGED <<login_result, cookie_file, file_cookies, cookies_left,
                   job_index, current_url, log>>
    /\ UNCHANGED <<wvars, evars>>

\* let url = build_url_from_config()?;
M_BuildUrl ==
    /\ mpc = "build_url"
    /\ \/ mpc' = "login" /\ UNCHANGED mresult
       \/ MainReturn("Error")
    /\ UNCHANGED <<login_result, cookie_file, file_cookies, cookies_left,
                   job_index, current_url, log>>
    /\ UNCHANGED <<wvars, evars>>

LoginUrl == <<"h","t","t","p","s",":","/","/","d","i","c","e",".","c","o","m","/","d","a","s","h","b","o","a","r","d","/","l","o","g","i","n">>
SearchUrl == <<"h","t","t","p","s",":","/","/","d","i","c","e",".","c","o","m","/","j","o","b","s","?">>

\* login: driver.get("https://dice.com/dashboard/login").await?;
M_LoginGet ==
    /\ mpc = "login"
    /\ \/ /\ Logged("login_get", 0, TRUE)
          /\ current_url' = LoginUrl
          /\ mpc' = "login_prompt"
          /\ UNCHANGED login_result
       \/ /\ Logged("login_get", 0, FALSE)
          /\ login_result' = "Err"
          /\ mpc' = "cookie_exists"
          /\ UNCHANGED current_url
    /\ UNCHANGED <<mresult, cookie_file, file_cookies, cookies_left, job_index>>
    /\ UNCHANGED <<wvars, evars>>

\* login: println!("Press Enter to exit..."); io::stdin().read_line(..); Ok(())
M_LoginPrompt ==
    /\ mpc = "login_prompt"
    /\ Logged("login_read_line", 0, TRUE)
    /\ login_result' = "Ok"
    /\ mpc' = "cookie_exists"
    /\ UNCHANGED <<mresult, cookie_file, file_cookies, cookies_left, job_index,
                   current_url>>
    /\ UNCHANGED <<wvars, evars>>

\* cookie_exists: match File::open(cookie_file) { Ok(_) => Ok(true), Err(_) => Ok(false) }
cookie_exists == cookie_file = "present"

\* match cookie_exists() { Ok(true) => .., Ok(false) => match login_result { .. } }
M_CookieExists ==
    /\ mpc = "cookie_exists"
    /\ IF cookie_exists
         THEN /\ Logged("cookie_exists_true", 0, TRUE)
              /\ mpc' = "load_cookies"
              /\ UNCHANGED mresult
         ELSE /\ Logged("cookie_exists_false", 0, TRUE)
              /\ IF login_result = "Ok"
                   THEN mpc' = "save_cookies" /\ UNCHANGED mresult
                   ELSE MainReturn("Error")
    /\ UNCHANGED <<login_result, cookie_file, file_cookies, cookies_left,
                   job_index, current_url>>
    /\ UNCHANGED <<wvars, evars>>

\* load_cookies: File::open("cookies.json")?; let cookies = from_reader(reader)?;
M_LoadCookies ==
    /\ mpc = "load_cookies"
    /\ \/ /\ Logged("load_cookies", 0, TRUE)
          /\ cookies_left' = file_cookies
          /\ mpc' = IF file_cookies = 0 THEN "get_search" ELSE "add_cookie"
          /\ UNCHANGED mresult
       \/ /\ Logged("load_cookies", 0, FALSE)
          /\ MainReturn("Error")
          /\ UNCHANGED cookies_left
    /\ UNCHANGED <<login_result, cookie_file, file_cookies, job_index, current_url>>
    /\ UNCHANGED <<wvars, evars>>

\* (the result of add_cookie dropped: `let _ = driver.add_cookie(..).await;`)
M_AddCookieIgnored ==
    /\ mpc = "add_cookie"
    /\ cookies_left > 0
    /\ \E ok \in BOOLEAN : Logged("add_cookie", 0, ok)
    /\ cookies_left' = cookies_left - 1
    /\ mpc' = IF cookies_left = 1 THEN "get_search" ELSE "add_cookie"
    /\ UNCHANGED <<mresult, login_result, cookie_file, file_cookies, job_index,
                   current_url>>
    /\ UNCHANGED <<wvars, evars>>

\* load_cookies: for cookie in cookies { driver.add_cookie(web_cookie).await?; }
M_AddCookie ==
    /\ mpc = "add_cookie"
    /\ cookies_left > 0
    /\ \/ /\ Logged("add_cookie", 0, TRUE)
          /\ cookies_left' = cookies_left - 1
          /\ mpc' = IF cookies_left = 1 THEN "get_search" ELSE "add_cookie"
          /\ UNCHANGED mresult
       \/ /\ Logged("add_cookie", 0, FALSE)
          /\ MainReturn("Error")
          /\ UNCHANGED cookies_left
    /\ UNCHANGED <<login_result, cookie_file, file_cookies, job_index, current_url>>
    /\ UNCHANGED <<wvars, evars>>

\* save_cookies: let cookies = driver.get_all_cookies().await?;
M_GetAllCookies ==
    /\ mpc = "save_cookies"
    /\ \/ /\ Logged("get_all_cookies", 0, TRUE)
          /\ mpc' = "write_cookies"
          /\ UNCHANGED mresult
       \/ /\ Logged("get_all_cookies", 0, FALSE)
          /\ MainReturn("Error")
    /\ UNCHANGED <<login_result, cookie_file, file_cookies, cookies_left,
                   job_index, current_url>>
    /\ UNCHANGED <<wvars, evars>>

\* save_cookies: File::create("cookies.json")?; serde_json::to_writer(writer, &cookies)?;
\* (File::create leaves a file behind even when the write fails)
M_WriteCookies ==
    /\ mpc = "write_cookies"
    /\ \/ \E n \in 0..MaxCookies :
            /\ Logged("write_cookies", 0, TRUE)
            /\ cookie_file' = "present"
            /\ file_cookies' = n
            /\ mpc' = "get_search"
            /\ UNCHANGED mresult
       \/ /\ Logged("write_cookies", 0, FALSE)
          /\ \/ UNCHANGED <<cookie_file, file_cookies>>
             \/ cookie_file' = "present" /\ file_cookies' = 0
          /\ MainReturn("Error")
    /\ UNCHANGED <<login_result, cookies_left, job_index, current_url>>
    /\ UNCHANGED <<wvars, evars>>

\* driver.get(&url).await?; let jobs = get_job_detail_ids(&driver, 1).await?;
M_GetSearch ==
    /\ mpc = "get_search"
    /\ epc = "idle"
    /\ \/ /\ Logged("get_search", 0, TRUE)
          /\ current_url' = SearchUrl
          /\ mpc' = "extract"
          /\ epc' = "start"
          /\ UNCHANGED mresult
       \/ /\ Logged("get_search", 0, FALSE)
          /\ MainReturn("Error")
          /\ UNCHANGED <<current_url, epc>>
    /\ UNCHANGED <<login_result, cookie_file, file_cookies, cookies_left, job_index>>
    /\ UNCHANGED <<eresult, divs_left, anchors_left, cur, jobs, seen_ids, ehist>>
    /\ UNCHANGED wvars

\* get_job_detail_ids has returned: `?`, then open_job_urls(&driver, jobs, "")
M_Extracted ==
    /\ mpc = "extract"
    /\ epc = "done"
    /\ IF eresult = "Ok"
         THEN /\ mpc' = IF Len(jobs) = 0 THEN "exit_prompt" ELSE "navigate"
              /\ job_index' = IF Len(jobs) = 0 THEN 0 ELSE 1
              /\ UNCHANGED mresult
         ELSE /\ MainReturn(eresult)
              /\ UNCHANGED job_index
    /\ UNCHANGED <<login_result, cookie_file, file_cookies, cookies_left,
                   current_url, log>>
    /\ UNCHANGED <<wvars, evars>>

\* let encoded_url = generate_encoded_url(&job.url, &job.job_title, search_params);
EncodedUrlOf(job, search_params) ==
    generate_encoded_url(job.url, job.job_title, search_params)

\* (the loop left after its first iteration)
NextJobBreak == mpc' = "exit_prompt" /\ job_index' = 0

\* the end of the body of `for job in jobs`; after the last, open_job_urls
\* returns Ok(()) to main
NextJob ==
    IF job_index = Len(jobs)
      THEN mpc' = "exit_prompt" /\ job_index' = 0
      ELSE mpc' = "navigate" /\ job_index' = job_index + 1

\* `?` in open_job_urls, then `?` in main: the run ends
PropagateError ==
    /\ MainReturn("Error")
    /\ UNCHANGED job_index

\* open_job_urls: driver.get(&encoded_url).await?;
O_Navigate ==
    /\ mpc = "navigate"
    /\ job_index \in DOMAIN jobs
    /\ \/ /\ Logged("navigate", job_index, TRUE)
          /\ current_url' = EncodedUrlOf(jobs[job_index], MainSearchParams)
          /\ mpc' = "settle_nav"
          /\ UNCHANGED <<mresult, job_index>>
       \/ /\ Logged("navigate", job_index, FALSE)
          /\ PropagateError
          /\ UNCHANGED current_url
    /\ UNCHANGED <<login_result, cookie_file, file_cookies, cookies_left>>
    /\ UNCHANGED <<wvars, evars>>

\* (a `continue` after the first sleep: the script is never run)
O_SettleNavContinue ==
    /\ mpc = "settle_nav"
    /\ Logged("sleep", job_index, TRUE)
    /\ NextJob
    /\ UNCHANGED <<mresult, login_result, cookie_file, file_cookies, cookies_left,
                   current_url>>
    /\ UNCHANGED <<wvars, evars>>

\* open_job_urls: sleep(Duration::from_secs(2)).await;  (after the navigation)
O_SettleNav ==
    /\ mpc = "settle_nav"
    /\ Logged("sleep", job_index, TRUE)
    /\ mpc' = "script"
    /\ UNCHANGED <<mresult, login_result, cookie_file, file_cookies, cookies_left,
                   job_index, current_url>>
    /\ UNCHANGED <<wvars, evars>>

\* open_job_urls: driver.execute_script(script, vec![]).await?;
\* var button = document.querySelector('button.btn.btn-primary');
\* if (button && button.innerText === 'Easy apply') { button.click(); }
O_Script ==
    /\ mpc = "script"
    /\ \/ \E clicked \in BOOLEAN :
            /\ Logged(IF clicked THEN "script_click" ELSE "script_no_button",
                      job_index, TRUE)
            /\ mpc' = "settle_script"
            /\ UNCHANGED <<mresult, job_index>>
       \/ /\ Logged("script", job_index, FALSE)
          /\ PropagateError
    /\ UNCHANGED <<login_result, cookie_file, file_cookies, cookies_left, current_url>>
    /\ UNCHANGED <<wvars, evars>>

\* open_job_urls: sleep(Duration::from_secs(2)).await;  (after the script)
O_SettleScript ==
    /\ mpc = "settle_script"
    /\ Logged("sleep", job_index, TRUE)
    /\ NextJob
    /\ UNCHANGED <<mresult, login_result, cookie_file, file_cookies, cookies_left,
                   current_url>>
    /\ UNCHANGED <<wvars, evars>>

open_job_urls == O_Navigate \/ O_SettleNav \/ O_Script \/ O_SettleScript

\* println!("Press Enter to exit..."); io::stdin().read_line(..); Ok(())
M_ExitPrompt ==
    /\ mpc = "exit_prompt"
    /\ Logged("exit_read_line", 0, TRUE)
    /\ MainReturn("Ok")
    /\ UNCHANGED <<login_result, cookie_file, file_cookies, cookies_left,
                   job_index, current_url>>
    /\ UNCHANGED <<wvars, evars>>

main ==
    \/ M_NewDriver \/ M_BuildUrl \/ M_LoginGet \/ M_LoginPrompt \/ M_CookieExists
    \/ M_LoadCookies \/ M_AddCookie \/ M_GetAllCookies \/ M_WriteCookies
    \/ M_GetSearch \/ M_Extracted \/ open_job_urls \/ M_ExitPrompt

MainIdle ==
    /\ mpc = "idle"
    /\ mresult = "none"
    /\ login_result = "none"
    /\ cookie_file = "absent"
    /\ file_cookies = 0
    /\ cookies_left = 0
    /\ job_index = 0
    /\ current_url = NoValue
    /\ log = <<>>

vars == <<wvars, evars, mvars>>

(***************************************************************************)
(* A run of main: cookies.json is absent, or present with any number of    *)
(* cookies                                                                 *)
(***************************************************************************)
Init ==
    /\ WaitIdle
    /\ ExtractIdle
    /\ mpc = "new_driver"
    /\ mresult = "none"
    /\ login_result = "none"
    /\ \/ cookie_file = "absent" /\ file_cookies = 0
       \/ cookie_file = "present" /\ file_cookies \in 0..MaxCookies
    /\ cookies_left = 0
    /\ job_index = 0
    /\ current_url = NoValue
    /\ log = <<>>

Next ==
    \/ wait_for_element /\ UNCHANGED <<evars, mvars>>
    \/ get_job_detail_ids /\ UNCHANGED mvars
    \/ main

Spec == Init /\ [][Next]_vars

(***************************************************************************)
(* The wait loops on their own: one call, any timeout, any page behaviour  *)
(***************************************************************************)
InitWait ==
    /\ \/ \E kind \in {"element", "clickable"}, t \in Timeouts : WaitStart(kind, t)
       \/ WaitStart("easy_apply", EasyApplyTimeout)
    /\ ExtractIdle
    /\ MainIdle

NextWait ==
    /\ wait_for_element \/ wait_for_element_clickable \/ click_easy_apply_button
    /\ UNCHANGED <<evars, mvars>>

SpecWait == InitWait /\ [][NextWait]_vars

\* each browser call returns and each sleep ends: the call keeps taking steps
SpecWaitFair == SpecWait /\ WF_vars(NextWait)

(***************************************************************************)
(* get_job_detail_ids on its own: one call, any page behaviour             *)
(***************************************************************************)
InitExtract ==
    /\ WaitIdle
    /\ ExtractStart
    /\ MainIdle

NextExtract ==
    \/ wait_for_element /\ UNCHANGED <<evars, mvars>>
    \/ get_job_detail_ids /\ UNCHANGED mvars

SpecExtract == InitExtract /\ [][NextExtract]_vars

(***************************************************************************)
(* open_job_urls on its own: one call on any list get_job_detail_ids can   *)
(* return, the log starting at the call                                    *)
(***************************************************************************)
\* a third posting id, so that a middle posting exists
Uuid3 == <<"9","b","8","c","7","d","6","e","-","5","f","4","a","-","4","b","3","c","-","a","d","2","e","-","1","f","0","a","9","b","8","c","7","d","6","e">>
OpenJobIds == ValidIds \cup {Uuid3}

\* jobs: Vec<Job> as extracted: any titles, no identifier twice
OpenJobLists ==
    LET Lists == UNION {[1..n -> OpenJobIds \X Titles] : n \in 0..Cardinality(OpenJobIds)}
    IN  {[i \in DOMAIN q |-> Job(1, q[i][2], q[i][1])] :
            q \in {l \in Lists : \A i, j \in DOMAIN l : i # j => l[i][1] # l[j][1]}}

InitOpen ==
    /\ WaitIdle
    /\ jobs \in OpenJobLists
    /\ seen_ids = {JobIdentifier(jobs[i]) : i \in DOMAIN jobs}
    /\ ehist = [EHist0 EXCEPT !.enumerated = TRUE, !.ready = "Ok",
                              !.matching = seen_ids \cap ValidIds]
    /\ epc = "done"
    /\ eresult = "Ok"
    /\ divs_left = 0
    /\ anchors_left = 0
    /\ cur = NoAnchor
    /\ mpc = IF jobs = <<>> THEN "exit_prompt" ELSE "navigate"
    /\ job_index = IF jobs = <<>> THEN 0 ELSE 1
    /\ mresult = "none"
    /\ login_result = "Ok"
    /\ cookie_file = "present"
    /\ file_cookies = 0
    /\ cookies_left = 0
    /\ current_url = SearchUrl
    /\ log = <<>>

NextOpen == open_job_urls \/ M_ExitPrompt

SpecOpen == InitOpen /\ [][NextOpen]_vars

(***************************************************************************)
(* Properties of the wait loops                                            *)
(***************************************************************************)
\* A call of wait_for_element has returned and no probe of it found the element.
NeverFound == wkind = "element" /\ wpc = "done" /\ hist.firstOkAt = 0

\* C3 (as stated): when the element is never found, wait_for_element returns
\* Timeout, never Ok, at an elapsed time strictly greater than the timeout and
\* at most the timeout plus one poll interval.
C3_TimeoutWithinOnePollInterval ==
    NeverFound =>
        /\ wresult = "Timeout"
        /\ elapsed > timeout
        /\ elapsed <= timeout + PollInterval

\* C3 (amended): when the element is never found, wait_for_element returns
\* Timeout, never Ok, at an elapsed time strictly greater than the timeout,
\* and the last poll before it started with elapsed time at most the timeout:
\* the return comes one loop iteration (one probe and one sleep) after a poll
\* that was still within the timeout.
C3_TimeoutAfterDeadlineOnly ==
    NeverFound =>
        /\ wresult = "Timeout"
        /\ elapsed > timeout
        /\ hist.probes >= 1
        /\ hist.lastPollAt <= timeout

C3_Witness ==
    /\ NeverFound
    /\ wresult = "Timeout"
    /\ hist.probes >= 2
    /\ elapsed > timeout + PollInterval

\* C4: wait_for_element issues its first probe at call start with no sleep
\* before it, and once a probe succeeds (the N-th) the call has returned Ok
\* after exactly N probes: no probe follows a success and Timeout is not
\* returned.
C4_OkAfterExactlyNProbes ==
    wkind = "element" =>
        /\ (wpc = "find" /\ hist.probes = 0 => hist.sleeps = 0 /\ elapsed = 0)
        /\ (hist.firstOkAt # 0 =>
                /\ wpc = "done"
                /\ wresult = "Ok"
                /\ hist.probes = hist.firstOkAt
                /\ hist.sleeps = hist.firstOkAt - 1)

C4_Witness ==
    /\ wkind = "element"
    /\ wpc = "done"
    /\ wresult = "Ok"
    /\ hist.firstOkAt >= 2
    /\ hist.lastPollAt <= timeout

\* C5: in each of the three wait loops a poll that is not the first starts
\* only after a sleep, and at least one poll interval after the poll before it.
C5_SleepBetweenPolls ==
    (wpc = "find" /\ hist.probes > 0) =>
        /\ hist.sleptSincePoll
        /\ hist.sleeps = hist.probes
        /\ elapsed - hist.lastPollAt >= PollInterval

C5_Witness ==
    /\ wkind = "easy_apply"
    /\ wpc = "find"
    /\ hist.probes >= 2
    /\ hist.sleptSincePoll

\* C6 (as stated): a wait loop ends only with Ok or with Timeout; an error of
\* a browser call made while evaluating the predicate is never returned.
C6_WaitEndsOkOrTimeout ==
    wpc = "done" => wresult \in {"Ok", "Timeout"}

\* the polls a call can start: one at once, then one per sleep of at least a
\* poll interval while the elapsed time is within the timeout
MaxPolls(t) == t \div PollInterval + 1

\* C19: every call of a wait loop ends (with Ok, Timeout or a propagated
\* error) whatever the page does, after at most MaxPolls(timeout) polls.
C19_WaitTerminates ==
    /\ [](hist.probes <= MaxPolls(timeout))
    /\ [](wpc = "done" => wresult \in {"Ok", "Timeout", "Error"})
    /\ <>(wpc = "done")

C19_Witness ==
    /\ wkind = "easy_apply"
    /\ wpc = "done"
    /\ wresult = "Timeout"
    /\ hist.probes = MaxPolls(timeout)

\* the step taken at the head of an iteration
AtLoopHead == wpc = "check"

\* C20: the deadline is tested before the probe in each iteration.  A probe is
\* issued only in a poll that started with elapsed <= timeout, so Ok comes only
\* from such a poll; an iteration that starts with elapsed > timeout returns
\* Timeout with no probe, and one that starts with elapsed = timeout probes.
C20_DeadlineCheckedBeforeProbe ==
    /\ [](~hist.lateProbe)
    /\ [](wpc = "find" => elapsed <= timeout)
    /\ [](wresult = "Ok" => hist.probes >= 1 /\ hist.lastPollAt <= timeout)
    /\ [][(AtLoopHead /\ elapsed > timeout) =>
            /\ wpc' = "done"
            /\ wresult' = "Timeout"
            /\ hist'.probes = hist.probes]_vars
    /\ [][(AtLoopHead /\ elapsed <= timeout) =>
            /\ wpc' = "find"
            /\ wresult' = "none"]_vars

C20_Witness ==
    /\ wkind = "clickable"
    /\ wpc = "done"
    /\ wresult = "Ok"
    /\ hist.probes >= 2
    /\ hist.lastPollAt = timeout
    /\ elapsed > timeout

\* click_easy_apply_button has read "Easy apply" as the text of a button of
\* primary class inside the applyButton div (the button it scrolls to and clicks)
EasyApplyButtonSeen ==
    /\ btn.div = ApplyButtonId
    /\ IsPrimaryClass(btn.class)
    /\ btn.text = EasyApplyText

\* the parts of C18 about the click: at most one click per call, only on such
\* a button, scrolled into view and settled before; Ok exactly when it succeeded
ClickOnlyOnEasyApply ==
    wkind = "easy_apply" =>
        /\ Len(hist.clicks) <= 1
        /\ \A i \in DOMAIN hist.clicks :
              /\ hist.clicks[i] = btn
              /\ EasyApplyButtonSeen
              /\ btn.scrolled
              /\ btn.settled
        /\ wpc = "done" => (wresult = "Ok" <=> Len(hist.clicks) = 1)
        /\ wresult = "Timeout" => elapsed > EasyApplyTimeout

\* C18 (as stated): click_easy_apply_button clicks at most once, only on the
\* Easy apply button of primary class inside the applyButton div, after
\* scrolling it into view and the settle delay; it returns Ok exactly when
\* that click succeeded, and Timeout when it has seen no such button.
C18_ClickOnceElseTimeout ==
    /\ ClickOnlyOnEasyApply
    /\ (wkind = "easy_apply" /\ wpc = "done" /\ ~EasyApplyButtonSeen)
          => wresult = "Timeout"

(***************************************************************************)
(* Properties of get_job_detail_ids                                        *)
(***************************************************************************)
\* get_job_detail_ids has returned Ok(jobs)
Extracted == epc = "done" /\ eresult = "Ok"

ReturnedIds == {JobIdentifier(jobs[i]) : i \in DOMAIN jobs}

\* C7: the sequence get_job_detail_ids returns holds no two postings with the
\* same canonical URL (the same identifier), however often an id is enumerated.
C7_NoDuplicatePostings ==
    \A i, j \in DOMAIN jobs :
        i # j => /\ jobs[i].url # jobs[j].url
                 /\ JobIdentifier(jobs[i]) # JobIdentifier(jobs[j])

C7_Witness ==
    /\ Extracted
    /\ Len(jobs) = 2
    /\ ehist.dupSkipped

\* C8 (as stated): each posting returned carries the text of the first anchor
\* enumerated with its id, also when reading an anchor's text can fail.
C8_FirstSeenTitleWins ==
    Extracted =>
        \A i \in DOMAIN jobs :
            jobs[i].job_title = ehist.firstTitle[JobIdentifier(jobs[i])]

\* C9 (as stated): the identifiers returned are exactly the ids of the
\* enumerated anchors that match the pattern, and each posting's url is the
\* job-detail prefix followed by its identifier.
C9_ExactlyTheMatchingIds ==
    Extracted =>
        /\ ReturnedIds = ehist.matching
        /\ \A i \in DOMAIN jobs :
            jobs[i].url = JobDetailPrefix \o JobIdentifier(jobs[i])

\* C15 (as stated): get_job_detail_ids returns Ok only when no browser call of
\* the enumeration returned an error: an Err of find_all, of attr("id") or of
\* text() is returned at once, never skipped over.
C15_ExtractionErrorsPropagate ==
    /\ ehist.swallowed => epc = "done" /\ eresult = "Error"
    /\ Extracted => ~ehist.swallowed

(***************************************************************************)
(* Decoding an apply URL: base64 (URL_SAFE) decoding, then reading the     *)
(* JSON object                                                             *)
(***************************************************************************)
Chr(n) == Ascii[n - 31]
Chars(b) == [i \in DOMAIN b |-> Chr(b[i])]
B64Value(c) == (CHOOSE i \in DOMAIN B64Alphabet : B64Alphabet[i] = c) - 1

\* decode_config(chars, URL_SAFE), the inverse of encode_config
Base64Decode(c) ==
    LET n == Len(c)
        pad == IF n = 0 THEN 0
               ELSE IF c[n - 1] = "=" THEN 2
               ELSE IF c[n] = "=" THEN 1 ELSE 0
    IN  [k \in 1..(3 * (n \div 4) - pad) |->
            LET i == 4 * ((k - 1) \div 3)
                p == (k - 1) % 3
            IN  CASE p = 0 -> B64Value(c[i + 1]) * 4 + B64Value(c[i + 2]) \div 16
                  [] p = 1 -> (B64Value(c[i + 2]) % 16) * 16
                              + B64Value(c[i + 3]) \div 4
                  [] OTHER -> (B64Value(c[i + 3]) % 4) * 64 + B64Value(c[i + 4])]

\* the number of backslashes in a row just before position j
BackslashRun(s, j) ==
    LET m == CHOOSE m \in 0..(j - 1) :
                /\ m = 0 \/ s[m] # "\\"
                /\ \A q \in (m + 1)..(j - 1) : s[q] = "\\"
    IN  j - 1 - m

\* the character at position j is the second of an escape pair
IsEscaped(s, j) == j > 1 /\ s[j - 1] = "\\" /\ BackslashRun(s, j) % 2 = 1

\* the positions of the quotes that open and close the strings of s, in order
StructuralQuotes(s) ==
    LET IsQuote(j) == s[j] = "\"" /\ ~IsEscaped(s, j)
    IN  SelectSeq([j \in DOMAIN s |-> j], IsQuote)

\* the value of the JSON string between the quotes at positions a and b:
\* each escape pair gives its second character
JsonUnescape(s, a, b) ==
    LET Kept(p) == ~(s[p] = "\\" /\ ~IsEscaped(s, p))
        at == SelectSeq([i \in 1..(b - a - 1) |-> a + i], Kept)
    IN  [i \in DOMAIN at |-> s[at[i]]]

\* serde_json::from_str of an object of strings: its members <<key, value>>
JsonParse(s) ==
    LET q == StructuralQuotes(s)
    IN  [m \in 1..(Len(q) \div 4) |->
            <<JsonUnescape(s, q[4 * m - 3], q[4 * m - 2]),
              JsonUnescape(s, q[4 * m - 1], q[4 * m])>>]

\* the value of a member (NoValue when the object has no such key)
JsonGet(members, key) ==
    IF \E i \in DOMAIN members : members[i][1] = key
      THEN members[CHOOSE i \in DOMAIN members : members[i][1] = key][2]
      ELSE NoValue

\* the JSON object in the payload of an apply URL
DecodedPayload(url) ==
    JsonParse(Chars(Base64Decode(SubSeq(url, Len(ApplyPrefix) + 1, Len(url)))))

(***************************************************************************)
(* Properties of main and open_job_urls                                    *)
(***************************************************************************)
Has(op) == \E i \in DOMAIN log : log[i].op = op
Count(op) == Cardinality({i \in DOMAIN log : log[i].op = op})
Before(op1, op2) ==
    \A i, j \in DOMAIN log : log[i].op = op1 /\ log[j].op = op2 => i < j

\* C1 (as stated): a run of main that found cookies.json has called
\* load_cookies and has run no stage of login (neither the navigation to the
\* login page nor the wait for the operator); a run that found no file and
\* whose login succeeded has called save_cookies exactly once, after login.
C1_ResumeSkipsLogin ==
    mpc = "done" =>
        /\ Has("cookie_exists_true") =>
                /\ Has("load_cookies")
                /\ ~Has("login_get")
                /\ ~Has("login_read_line")
        /\ (Has("cookie_exists_false") /\ login_result = "Ok") =>
                /\ Has("login_read_line")
                /\ Count("get_all_cookies") = 1
                /\ Before("login_read_line", "get_all_cookies")

\* C2 (as stated): when open_job_urls was entered and the run has ended, every
\* posting of the list was navigated to: a failed browser call for one posting
\* abandons that posting only.
C2_FailureAbandonsOnlyThatPosting ==
    (mpc = "done" /\ Extracted) =>
        \A k \in DOMAIN jobs :
            \E i \in DOMAIN log : log[i].op = "navigate" /\ log[i].k = k

\* decoding the payload of generate_encoded_url(id, t, s) gives back id and t
SampleSearchParams == {<<>>, <<"q","=","g","o">>}
EncodeDecodeRoundTrip ==
    \A id \in ValidIds \cup {<<"a","b","c">>}, t \in Titles,
       sp \in SampleSearchParams :
        LET d == DecodedPayload(generate_encoded_url(id, t, sp))
        IN  /\ JsonGet(d, KeyJobId) = id
            /\ JsonGet(d, KeyJobTitle) = t

\* C10 (as stated): the payload of the URL open_job_urls navigates to for a
\* posting decodes to an object whose jobId is the posting's identifier (not
\* its canonical URL) and whose jobTitle is its title; and
\* generate_encoded_url followed by decoding gives back jobId and jobTitle.
C10_PayloadCarriesIdentifier ==
    /\ EncodeDecodeRoundTrip
    /\ mpc = "settle_nav" =>
        LET d == DecodedPayload(current_url)
            job == jobs[job_index]
        IN  /\ JsonGet(d, KeyJobId) = JobIdentifier(job)
            /\ JsonGet(d, KeyJobTitle) = job.job_title

\* C11 (as stated): once login has returned an error the run performs no
\* cookie load, no search navigation, no extraction and no apply navigation,
\* and it ends with an error - also when cookies.json exists.
C11_LoginFailureEndsRun ==
    login_result = "Err" =>
        /\ ~Has("load_cookies")
        /\ ~Has("add_cookie")
        /\ ~Has("get_search")
        /\ ~Has("navigate")
        /\ epc = "idle"
        /\ (mpc = "done" => mresult # "Ok")


\* C12 (as stated): for a posting whose navigation succeeded and whose Easy
\* apply button was clicked, a click of the Submit button is attempted before
\* the next posting is navigated to and before open_job_urls is left.
C12_SubmitBeforeNextPosting ==
    \A i, j \in DOMAIN log :
        ( /\ log[i].op = "script_click"
          /\ i < j
          /\ log[j].op \in {"navigate", "exit_read_line"} ) =>
            \E s \in (i + 1)..(j - 1) :
                /\ log[s].op \in {"next_click", "submit_click"}
                /\ log[s].k = log[i].k


\* The script of open_job_urls ran for posting k and found no Easy apply button.
NoButtonAt(i) == i \in DOMAIN log /\ log[i].op = "script_no_button"

\* C13: a posting for which the script finds no Easy apply button gets no click
\* at all (no Easy apply click, no Submit click), and open_job_urls goes on
\* after one sleep: the call after the script is the sleep, and with it done
\* the program stands at the navigation to the next posting, which is the call
\* after that (after the last posting, the return to main).
C13_NoButtonPostingAbandoned ==
    \A i \in DOMAIN log :
        NoButtonAt(i) =>
            LET k == log[i].k
                last == k = Len(jobs)
            IN  /\ \A j \in DOMAIN log :
                    log[j].k = k =>
                        log[j].op \notin {"script_click", "next_click", "submit_click"}
                /\ i = Len(log) => mpc = "settle_script" /\ job_index = k
                /\ i < Len(log) => log[i + 1] = Call("sleep", k, TRUE)
                /\ i + 1 = Len(log) =>
                        IF last THEN mpc = "exit_prompt"
                                ELSE mpc = "navigate" /\ job_index = k + 1
                /\ i + 1 < Len(log) =>
                        IF last THEN log[i + 2].op = "exit_read_line"
                                ELSE log[i + 2].op = "navigate" /\ log[i + 2].k = k + 1

C13_Witness ==
    \E i \in DOMAIN log :
        /\ NoButtonAt(i)
        /\ log[i].k = 2
        /\ i + 2 \in DOMAIN log
        /\ log[i + 2] = Call("navigate", 3, TRUE)

\* C14: when the page-level wait of get_job_detail_ids timed out, the function
\* has returned Timeout with nothing enumerated and no posting extracted, no
\* apply URL is navigated to, and main ends with that Timeout.
C14_NotReadyPageIsFatal ==
    ehist.ready = "Timeout" =>
        /\ epc = "done"
        /\ eresult = "Timeout"
        /\ ~ehist.enumerated
        /\ jobs = <<>>
        /\ ~Has("navigate")
        /\ mpc \in {"extract", "done"}
        /\ (mpc = "done" => mresult = "Timeout")

C14_Witness ==
    /\ ehist.ready = "Timeout"
    /\ mpc = "done"
    /\ mresult = "Timeout"
    /\ Has("get_search")

CountOk(op) == Cardinality({i \in DOMAIN log : log[i].op = op /\ log[i].ok})
Failed(op) == \E i \in DOMAIN log : log[i].op = op /\ ~log[i].ok
SessionOps == {"load_cookies", "add_cookie", "get_all_cookies", "write_cookies"}

\* C16: once the navigation to the search URL has been issued, every session
\* call lies before it and none failed: with cookies.json present every cookie
\* of the file was added, with it absent save_cookies has completed; a session
\* call that failed has ended the run with no search navigation.
C16_SessionBeforeMainFlow ==
    /\ Has("get_search") =>
        /\ \A op \in SessionOps : Before(op, "get_search") /\ ~Failed(op)
        /\ Has("cookie_exists_true") =>
              /\ CountOk("load_cookies") = 1
              /\ CountOk("add_cookie") = file_cookies
              /\ ~Has("get_all_cookies")
        /\ Has("cookie_exists_false") =>
              /\ CountOk("get_all_cookies") = 1
              /\ CountOk("write_cookies") = 1
              /\ cookie_file = "present"
              /\ ~Has("add_cookie")
    /\ \A op \in SessionOps :
        Failed(op) => mpc = "done" /\ mresult = "Error" /\ ~Has("get_search")

C16_Witness ==
    /\ Has("navigate")
    /\ Has("cookie_exists_true")
    /\ CountOk("add_cookie") = 2


\* the calls open_job_urls made for postings
PostingCalls == {i \in DOMAIN log : log[i].k > 0}

\* C17: the calls for postings come in the order of the list with no call for
\* one posting between two calls for another; each posting is navigated to at
\* most once; the navigation for posting k + 1 directly follows the
\* navigation, the sleep, the script and the second sleep of posting k; and
\* the URL navigated to is the one composed for the posting at that index.
C17_PostingsStrictlySequential ==
    /\ \A i, j \in PostingCalls : i < j => log[i].k <= log[j].k
    /\ \A i, j \in PostingCalls :
          (log[i].op = "navigate" /\ log[j].op = "navigate" /\ log[i].k = log[j].k)
              => i = j
    /\ \A j \in DOMAIN log :
          log[j].op = "navigate" =>
              LET k == log[j].k
              IN  /\ k \in DOMAIN jobs
                  /\ IF k = 1
                       THEN \A i \in 1..(j - 1) : log[i].k = 0
                       ELSE /\ j > 4
                            /\ log[j - 4] = Call("navigate", k - 1, TRUE)
                            /\ log[j - 3] = Call("sleep", k - 1, TRUE)
                            /\ log[j - 2].op \in {"script_click", "script_no_button"}
                            /\ log[j - 2].k = k - 1
                            /\ log[j - 2].ok
                            /\ log[j - 1] = Call("sleep", k - 1, TRUE)
    /\ mpc \in {"settle_nav", "script", "settle_script"} =>
          /\ job_index = log[Len(log)].k
          /\ current_url = EncodedUrlOf(jobs[job_index], MainSearchParams)

C17_Witness ==
    /\ mpc = "settle_script"
    /\ job_index = 3
    /\ \A k \in 1..3 : \E i \in DOMAIN log : log[i] = Call("navigate", k, TRUE)


====
